---------------------------- MODULE Spec2Model ----------------------------
(***************************************************************************)
(* A model of web_app/app.py: the Flask body-pose detection service.       *)
(*                                                                         *)
(* Two specifications are given.                                           *)
(*   Spec      the HTTP server: NumThreads request threads, each running   *)
(*             detect_pose -> tracker.process_image step by step against   *)
(*             the one process-wide SimpleBodyTracker.                     *)
(*   SpecUnit  single calls of the tracker's methods (calculate_distance,  *)
(*             calculate_body_distances, calculate_detection_quality,      *)
(*             process_image) on inputs drawn from bounded sets.           *)
(*                                                                         *)
(* Units.  A visibility is an integer number of hundredths (0.3 is 30).    *)
(* A normalized coordinate is an integer numerator over CoordDen; with     *)
(* CoordDen = 8 every coordinate and every product coordinate * dimension  *)
(* is exact in binary floating point, so int(x * w) is the truncation of   *)
(* the exact quotient.  math.sqrt is strictly increasing on the sums of    *)
(* squares it is applied to; a distance is carried as its square           *)
(* (field distance2).  The z coordinate is only copied by the code and is  *)
(* left out.                                                               *)
(***************************************************************************)
EXTENDS Integers, Sequences, FiniteSets, TLC

VARIABLES pc, request, result, response, invoked, call, ret

vars == <<pc, request, result, response, invoked, call, ret>>

-----------------------------------------------------------------------------
(* Bounds of the model *)

\* request threads of the threaded server
NumThreads == 2
\* denominator of the normalized-coordinate grid
CoordDen == 8
\* largest image height and width drawn besides the 200 x 100 image
MaxDim == 3
\* most keypoints of the ten measured ones that an input hides
MaxHidden == 2
\* longest landmarks list handed to calculate_detection_quality
MaxQualityLen == 10

(* Program constants *)

\* visibility > 0.3 (lines 79 and 131), in hundredths
VisLow == 30
\* visibility > 0.7 (line 209), in hundredths
VisHigh == 70
\* the Landmark Source returns 33 keypoints, named 0..32 (lines 189-200)
NumLandmarks == 33

-----------------------------------------------------------------------------
(* Arithmetic *)

\* Python int() of the exact quotient n / d (d > 0): truncation toward zero
IntTrunc(n, d) == IF n >= 0 THEN n \div d ELSE -((-n) \div d)

\* Python round() of n / d (d > 0): to nearest, ties to even
IntRound(n, d) ==
    LET f == (2 * n + d) \div (2 * d)
    IN  IF (2 * n + d) % (2 * d) = 0 /\ f % 2 = 1 THEN f - 1 ELSE f

-----------------------------------------------------------------------------
(* SimpleBodyTracker *)

\* a keypoint as the Landmark Source returns it
Landmark(x, y, v) == [x |-> x, y |-> y, visibility |-> v]

\* the names dict, keys 0..32 (entry i + 1 here is the name of index i)
names ==
    <<"Nose", "Left Eye Inner", "Left Eye", "Left Eye Outer",
      "Right Eye Inner", "Right Eye", "Right Eye Outer",
      "Left Ear", "Right Ear", "Mouth Left", "Mouth Right",
      "Left Shoulder", "Right Shoulder", "Left Elbow",
      "Right Elbow", "Left Wrist", "Right Wrist",
      "Left Pinky", "Right Pinky", "Left Index",
      "Right Index", "Left Thumb", "Right Thumb",
      "Left Hip", "Right Hip", "Left Knee", "Right Knee",
      "Left Ankle", "Right Ankle", "Left Heel",
      "Right Heel", "Left Foot Index", "Right Foot Index">>

\* names.get(index, f"Point_{index}")
get_landmark_name(index) ==
    IF index + 1 \in DOMAIN names THEN names[index + 1]
    ELSE "Point_" \o ToString(index)

ToPixelRounded(c, dim) == IntRound(c * dim, CoordDen)

\* int(point.x * w), int(point.y * h)
ToPixel(c, dim) == IntTrunc(c * dim, CoordDen)

\* image_shape is <<h, w>>
calculate_distance(point1, point2, image_shape) ==
    LET h  == image_shape[1]
        w  == image_shape[2]
        x1 == ToPixel(point1.x, w)
        y1 == ToPixel(point1.y, h)
        x2 == ToPixel(point2.x, w)
        y2 == ToPixel(point2.y, h)
    IN  [distance2 |-> (x2 - x1) * (x2 - x1) + (y2 - y1) * (y2 - y1),
         coord1 |-> <<x1, y1>>,
         coord2 |-> <<x2, y2>>]

\* PoseLandmark values: LEFT_SHOULDER 11, RIGHT_SHOULDER 12, LEFT_ELBOW 13,
\* RIGHT_ELBOW 14, LEFT_WRIST 15, RIGHT_WRIST 16, LEFT_HIP 23, RIGHT_HIP 24,
\* LEFT_ANKLE 27, RIGHT_ANKLE 28
key_pairs ==
    << [point1 |-> 11, point2 |-> 12, label |-> "Shoulders"],
       [point1 |-> 15, point2 |-> 16, label |-> "Hands"],
       [point1 |-> 23, point2 |-> 24, label |-> "Hips"],
       [point1 |-> 27, point2 |-> 28, label |-> "Feet"],
       [point1 |-> 11, point2 |-> 13, label |-> "Left Upper Arm"],
       [point1 |-> 13, point2 |-> 15, label |-> "Left Lower Arm"],
       [point1 |-> 12, point2 |-> 14, label |-> "Right Upper Arm"],
       [point1 |-> 14, point2 |-> 16, label |-> "Right Lower Arm"] >>

\* landmarks[i] of the code is landmarks[i + 1] here
PairMeasurableFirstOnly(landmarks, pair) ==
    /\ pair.point1 < Len(landmarks)
    /\ pair.point2 < Len(landmarks)
    /\ landmarks[pair.point1 + 1].visibility > VisLow

\* the condition of the loop of calculate_body_distances
PairMeasurable(landmarks, pair) ==
    /\ pair.point1 < Len(landmarks)
    /\ pair.point2 < Len(landmarks)
    /\ landmarks[pair.point1 + 1].visibility > VisLow
    /\ landmarks[pair.point2 + 1].visibility > VisLow

\* the dict appended for one pair
Measurement(landmarks, pair, image_shape) ==
    LET d == calculate_distance(landmarks[pair.point1 + 1],
                                landmarks[pair.point2 + 1], image_shape)
    IN  [label |-> pair.label,
         distance2 |-> d.distance2,
         point1 |-> pair.point1,
         point2 |-> pair.point2,
         point1_name |-> get_landmark_name(pair.point1),
         point2_name |-> get_landmark_name(pair.point2),
         coordinates |-> [point1 |-> [x |-> d.coord1[1], y |-> d.coord1[2]],
                          point2 |-> [x |-> d.coord2[1], y |-> d.coord2[2]]]]

\* the loop with each measurement put in front of the list
RECURSIVE BodyDistancesPrepending(_, _, _, _)
BodyDistancesPrepending(landmarks, image_shape, i, distances) ==
    IF i > Len(key_pairs) THEN distances
    ELSE BodyDistancesPrepending(landmarks, image_shape, i + 1,
            IF PairMeasurable(landmarks, key_pairs[i])
            THEN <<Measurement(landmarks, key_pairs[i], image_shape)>> \o distances
            ELSE distances)

\* the loop over key_pairs from its i-th entry on, distances so far
RECURSIVE BodyDistancesLoop(_, _, _, _)
BodyDistancesLoop(landmarks, image_shape, i, distances) ==
    IF i > Len(key_pairs) THEN distances
    ELSE BodyDistancesLoop(landmarks, image_shape, i + 1,
            IF PairMeasurable(landmarks, key_pairs[i])
            THEN Append(distances, Measurement(landmarks, key_pairs[i], image_shape))
            ELSE distances)

calculate_body_distances_prepending(landmarks, image_shape) ==
    BodyDistancesPrepending(landmarks, image_shape, 1, <<>>)

calculate_body_distances(landmarks, image_shape) ==
    BodyDistancesLoop(landmarks, image_shape, 1, <<>>)

IsHighConfidence(l) == l.visibility > VisHigh

\* len([l for l in landmarks if l['visibility'] > 0.7])
HighConfidenceCount(landmarks_data) ==
    Len(SelectSeq(landmarks_data, IsHighConfidence))

\* ratio > num / den for ratio = high / visible, visible > 0; the float
\* quotient of two counts up to 33 exceeds the literal 0.8, 0.6 or 0.4 exactly
\* when the exact quotient does
RatioAbove(high, visible, num, den) == high * den > num * visible

RatioAtLeast(high, visible, num, den) == high * den >= num * visible

QualityBucketInclusive(high, visible) ==
    IF RatioAtLeast(high, visible, 8, 10) THEN "excellent"
    ELSE IF RatioAtLeast(high, visible, 6, 10) THEN "good"
    ELSE IF RatioAtLeast(high, visible, 4, 10) THEN "fair"
    ELSE "poor"

\* the if / elif chain of calculate_detection_quality
QualityBucket(high, visible) ==
    IF RatioAbove(high, visible, 8, 10) THEN "excellent"
    ELSE IF RatioAbove(high, visible, 6, 10) THEN "good"
    ELSE IF RatioAbove(high, visible, 4, 10) THEN "fair"
    ELSE "poor"

calculate_detection_quality(landmarks_data) ==
    IF landmarks_data = <<>> THEN "poor"
    ELSE QualityBucket(HighConfidenceCount(landmarks_data), Len(landmarks_data))


\* the extraction filter with the threshold of the other service variant
LandmarkVisibleHalf(landmark) == landmark.visibility > 50

\* the filter of the extraction loop of process_image
LandmarkVisible(landmark) == landmark.visibility > VisLow

\* the dict built for the landmark of index idx
LandmarkEntry(landmarks, idx) ==
    [x |-> landmarks[idx + 1].x,
     y |-> landmarks[idx + 1].y,
     visibility |-> landmarks[idx + 1].visibility,
     index |-> idx,
     name |-> get_landmark_name(idx)]

\* the loop over enumerate(landmarks): one dict appended, in the order of the
\* indices, for each landmark that passes the filter (a dict carries its
\* landmark's visibility, so the filter is applied to the dicts)
ExtractLandmarks(landmarks) ==
    SelectSeq([i \in DOMAIN landmarks |-> LandmarkEntry(landmarks, i - 1)],
              LandmarkVisible)

\* Python's None where a string is expected
None == "None"

\* the empty dict {}
EmptyDict == [k \in {} |-> 0]

(***************************************************************************)
(* An image_data value is described by what the library calls made on it   *)
(* do:                                                                     *)
(*   isStr     whether it is a string (',' in image_data raises if not)    *)
(*   fail      the one library call that raises on it, or "none":          *)
(*             "b64decode", "Image.open", "cvtColor", "pose.process",      *)
(*             "create_annotated_image", "imencode"                        *)
(*   detected  whether results.pose_landmarks is set                       *)
(*   landmark  results.pose_landmarks.landmark                             *)
(*   shape     image_np.shape[:2], <<h, w>>                                *)
(***************************************************************************)
ImageData(isStr, fail, detected, landmark, shape) ==
    [isStr |-> isStr, fail |-> fail, detected |-> detected,
     landmark |-> landmark, shape |-> shape]

\* the first statement of lines 52-60 that raises, "none" if none does
DecodeError(image_data) ==
    IF ~image_data.isStr THEN "TypeError"
    ELSE IF image_data.fail \in {"b64decode", "Image.open", "cvtColor"}
         THEN image_data.fail
         ELSE "none"

\* except Exception as e: return {'success': False, 'error': str(e)}
process_image_except(e) == [success |-> FALSE, error |-> e]

\* catches the failure of cv2.imencode and returns None
image_to_base64(image_data) ==
    IF image_data.fail = "imencode" THEN None ELSE "data:image/jpeg;base64"

\* lines 65-106 with their share of the except clause: the response built
\* from the results of pose.process
DetectionResponse(image_data) ==
    IF ~image_data.detected
    THEN [success |-> TRUE, landmarks |-> <<>>, distances |-> <<>>,
          annotated_image |-> None, stats |-> EmptyDict]
    ELSE LET landmarks_data == ExtractLandmarks(image_data.landmark)
             distances_data == calculate_body_distances(image_data.landmark,
                                                        image_data.shape)
         IN  IF image_data.fail = "create_annotated_image"
             THEN process_image_except("create_annotated_image")
             ELSE [success |-> TRUE,
                   landmarks |-> landmarks_data,
                   distances |-> distances_data,
                   annotated_image |-> image_to_base64(image_data),
                   stats |-> [total_landmarks |-> Len(landmarks_data),
                              total_distances |-> Len(distances_data),
                              detection_quality |->
                                  calculate_detection_quality(landmarks_data)]]

process_image(image_data) ==
    IF DecodeError(image_data) # "none"
    THEN process_image_except(DecodeError(image_data))
    ELSE IF image_data.fail = "pose.process"
         THEN process_image_except("pose.process")
         ELSE DetectionResponse(image_data)

-----------------------------------------------------------------------------
(* Inputs *)

KeyIndices == {key_pairs[i].point1 : i \in DOMAIN key_pairs}
              \cup {key_pairs[i].point2 : i \in DOMAIN key_pairs}

\* lengths of the keypoint list: short ones put an endpoint out of range
KeypointLens == {0, 12, 16, 24, 28, 29, NumLandmarks}

\* n keypoints, those of `special` with visibility level, the others base
MkKeypoints(n, base, special, level) ==
    [i \in 1..n |-> Landmark(((i - 1) * 3) % (CoordDen + 1),
                             ((i - 1) * 5) % (CoordDen + 1),
                             IF (i - 1) \in special THEN level ELSE base)]

SpecialSets == {s \in SUBSET KeyIndices : Cardinality(s) <= MaxHidden}

KeypointSets ==
    {MkKeypoints(n, bl[1], s, bl[2]) :
        n \in KeypointLens, s \in SpecialSets,
        bl \in {<<71, VisLow>>, <<VisLow, VisLow + 1>>, <<VisLow + 1, 0>>}}

Shapes == {<<h, w>> : h \in 1..MaxDim, w \in 1..MaxDim} \cup {<<200, 100>>}


\* what the Landmark Source returns in the server runs: 33 keypoints, the
\* right shoulder at visibility 0.3 and the others just above
PoseSamples == {MkKeypoints(NumLandmarks, VisLow + 1, {12}, VisLow)}

AnyShape == <<2, 3>>

ServerImages ==
    {ImageData(FALSE, "none", FALSE, <<>>, AnyShape)}
    \cup {ImageData(TRUE, f, FALSE, <<>>, AnyShape) :
            f \in {"none", "b64decode", "pose.process"}}
    \cup {ImageData(TRUE, f, TRUE, l, AnyShape) :
            f \in {"none", "create_annotated_image", "imencode"}, l \in PoseSamples}

NoImage == ImageData(FALSE, "none", FALSE, <<>>, <<1, 1>>)

(***************************************************************************)
(* The body of a POST request, as request.json sees it:                    *)
(*   kind   "absent" (no JSON body), "null", "object", "array", "string",  *)
(*          "number"                                                       *)
(*   keys   the keys of an object                                          *)
(*   elems  the elements of an array (strings)                             *)
(*   text   a string                                                       *)
(*   value  a number                                                       *)
(*   image  the value under 'image' of an object that has the key          *)
(***************************************************************************)
Body(kind, keys, elems, text, value, image) ==
    [kind |-> kind, keys |-> keys, elems |-> elems, text |-> text,
     value |-> value, image |-> image]

Bodies ==
    {Body("absent", {}, <<>>, "", 0, NoImage),
     Body("null", {}, <<>>, "", 0, NoImage),
     Body("object", {}, <<>>, "", 0, NoImage),
     Body("object", {"other"}, <<>>, "", 0, NoImage),
     Body("array", {}, <<"image">>, "", 0, NoImage),
     Body("string", {}, <<>>, "abc", 0, NoImage),
     Body("string", {}, <<>>, "my image", 0, NoImage),
     Body("number", {}, <<>>, "", 5, NoImage)}
    \cup {Body("object", {"image"}, <<>>, "", 0, i) : i \in ServerImages}

\* the strings of Bodies that have 'image' as a substring
ContainsImage(text) == text \in {"image", "my image"}

\* not data
Falsy(data) ==
    CASE data.kind \in {"absent", "null"} -> TRUE
      [] data.kind = "object" -> data.keys = {}
      [] data.kind = "array" -> data.elems = <<>>
      [] data.kind = "string" -> data.text = ""
      [] data.kind = "number" -> data.value = 0

\* 'image' in data: "True", "False", or "TypeError" where data has no
\* membership test
InData(data) ==
    CASE data.kind = "object" ->
            IF "image" \in data.keys THEN "True" ELSE "False"
      [] data.kind = "array" ->
            IF \E i \in DOMAIN data.elems : data.elems[i] = "image"
            THEN "True" ELSE "False"
      [] data.kind = "string" ->
            IF ContainsImage(data.text) THEN "True" ELSE "False"
      [] OTHER -> "TypeError"

\* data['image'] raises unless data is an object
Subscriptable(data) == data.kind = "object"

-----------------------------------------------------------------------------
(* detect_pose *)

\* app.run serves each request in a thread of its own, all of them calling
\* the one module-level tracker
Threads == 1..NumThreads

NoResult == [unset |-> TRUE]

NoResponse == [status |-> 0, body |-> NoResult]

detect_pose_except_bare(e) == [status |-> 500, body |-> [success |-> FALSE]]

\* except Exception as e: return jsonify({'success': False, 'error': str(e)}), 500
detect_pose_except(e) ==
    [status |-> 500, body |-> [success |-> FALSE, error |-> e]]

\* return jsonify({'success': False, 'error': 'No image data provided'}), 400
NoImageResponse ==
    [status |-> 400,
     body |-> [success |-> FALSE, error |-> "No image data provided"]]

\* A POST arrives and data = request.json is evaluated.  Without a JSON body
\* request.json returns None (no JSON content type, older framework) or
\* raises (an empty or unparsable body, or a newer framework); the raise is
\* an Exception and lands in the except clause.
Receive(t) ==
    /\ pc[t] = "idle"
    /\ \E b \in Bodies :
        /\ request' = [request EXCEPT ![t] = b]
        /\ \/ /\ pc' = [pc EXCEPT ![t] = "check"]
              /\ UNCHANGED response
           \/ /\ b.kind = "absent"
              /\ pc' = [pc EXCEPT ![t] = "done"]
              /\ response' = [response EXCEPT ![t] = detect_pose_except("request.json")]
    /\ UNCHANGED <<result, invoked, call, ret>>

\* lines 250-254 up to the call of tracker.process_image
CheckImage(t) ==
    /\ pc[t] = "check"
    /\ LET data == request[t]
       IN  IF Falsy(data)
           THEN /\ response' = [response EXCEPT ![t] = NoImageResponse]
                /\ pc' = [pc EXCEPT ![t] = "done"]
                /\ UNCHANGED invoked
           ELSE IF InData(data) = "TypeError"
           THEN /\ response' = [response EXCEPT ![t] = detect_pose_except("TypeError")]
                /\ pc' = [pc EXCEPT ![t] = "done"]
                /\ UNCHANGED invoked
           ELSE IF InData(data) = "False"
           THEN /\ response' = [response EXCEPT ![t] = NoImageResponse]
                /\ pc' = [pc EXCEPT ![t] = "done"]
                /\ UNCHANGED invoked
           ELSE IF ~Subscriptable(data)
           THEN /\ response' = [response EXCEPT ![t] = detect_pose_except("TypeError")]
                /\ pc' = [pc EXCEPT ![t] = "done"]
                /\ UNCHANGED invoked
           ELSE /\ pc' = [pc EXCEPT ![t] = "process_image"]
                /\ invoked' = [invoked EXCEPT ![t] = TRUE]
                /\ UNCHANGED response
    /\ UNCHANGED <<request, result, call, ret>>

\* lines 52-63: decoding, then the call of self.pose.process
Decode(t) ==
    /\ pc[t] = "process_image"
    /\ LET image_data == request[t].image
       IN  IF DecodeError(image_data) # "none"
           THEN /\ result' = [result EXCEPT ![t] =
                                 process_image_except(DecodeError(image_data))]
                /\ pc' = [pc EXCEPT ![t] = "jsonify"]
           ELSE /\ pc' = [pc EXCEPT ![t] = "pose.process"]
                /\ UNCHANGED result
    /\ UNCHANGED <<request, response, invoked, call, ret>>

\* self.pose.process returns or raises, and the rest of process_image runs
PoseProcessReturn(t) ==
    /\ pc[t] = "pose.process"
    /\ LET image_data == request[t].image
       IN  result' = [result EXCEPT ![t] =
                         IF image_data.fail = "pose.process"
                         THEN process_image_except("pose.process")
                         ELSE DetectionResponse(image_data)]
    /\ pc' = [pc EXCEPT ![t] = "jsonify"]
    /\ UNCHANGED <<request, response, invoked, call, ret>>

\* return jsonify(result)
Jsonify(t) ==
    /\ pc[t] = "jsonify"
    /\ response' = [response EXCEPT ![t] = [status |-> 200, body |-> result[t]]]
    /\ pc' = [pc EXCEPT ![t] = "done"]
    /\ UNCHANGED <<request, result, invoked, call, ret>>

\* the response is sent and the thread takes the next request
Finish(t) ==
    /\ pc[t] = "done"
    /\ pc' = [pc EXCEPT ![t] = "idle"]
    /\ request' = [request EXCEPT ![t] = Body("absent", {}, <<>>, "", 0, NoImage)]
    /\ result' = [result EXCEPT ![t] = NoResult]
    /\ response' = [response EXCEPT ![t] = NoResponse]
    /\ invoked' = [invoked EXCEPT ![t] = FALSE]
    /\ UNCHANGED <<call, ret>>

NoCall == [fn |-> "none"]

NoReturn == [done |-> FALSE]

Init ==
    /\ pc = [t \in Threads |-> "idle"]
    /\ request = [t \in Threads |-> Body("absent", {}, <<>>, "", 0, NoImage)]
    /\ result = [t \in Threads |-> NoResult]
    /\ response = [t \in Threads |-> NoResponse]
    /\ invoked = [t \in Threads |-> FALSE]
    /\ call = NoCall
    /\ ret = NoReturn

Next ==
    \E t \in Threads :
        \/ Receive(t)
        \/ CheckImage(t)
        \/ Decode(t)
        \/ PoseProcessReturn(t)
        \/ Jsonify(t)
        \/ Finish(t)

Spec == Init /\ [][Next]_vars

\* the steps of thread t between the arrival of a request and its response
Handle(t) == CheckImage(t) \/ Decode(t) \/ PoseProcessReturn(t) \/ Jsonify(t)


-----------------------------------------------------------------------------
(* Single calls of the tracker's methods *)

GridCoords == -1..(CoordDen + 1)

DistanceCalls ==
    {[fn |-> "calculate_distance",
      point1 |-> Landmark(x, y, 100),
      point2 |-> Landmark(q[1], q[2], 100),
      image_shape |-> s] :
        x \in GridCoords, y \in GridCoords,
        q \in {<<0, 0>>, <<CoordDen, CoordDen>>, <<CoordDen + 1, -1>>},
        s \in Shapes}

BodyDistanceCalls ==
    {[fn |-> "calculate_body_distances", landmarks |-> l, image_shape |-> s] :
        l \in KeypointSets, s \in {AnyShape, <<200, 100>>}}

\* n entries as the extraction loop builds them, the first k above 0.7
QualityList(n, k, hi, lo) ==
    [i \in 1..n |-> [x |-> 0, y |-> 0,
                     visibility |-> IF i <= k THEN hi ELSE lo,
                     index |-> i - 1,
                     name |-> get_landmark_name(i - 1)]]

QualityCalls ==
    {[fn |-> "calculate_detection_quality",
      landmarks_data |-> QualityList(n, k, hl[1], hl[2])] :
        n \in 0..MaxQualityLen, k \in 0..MaxQualityLen,
        hl \in {<<VisHigh + 1, VisHigh>>, <<100, VisLow + 1>>}}

ProcessCalls ==
    {[fn |-> "process_image", image_data |-> i] :
        i \in {ImageData(FALSE, "none", FALSE, <<>>, AnyShape)}
              \cup {ImageData(TRUE, f, FALSE, <<>>, AnyShape) :
                      f \in {"none", "b64decode", "Image.open", "cvtColor",
                             "pose.process", "create_annotated_image", "imencode"}}
              \cup {ImageData(TRUE, f, TRUE, l, AnyShape) :
                      f \in {"none", "create_annotated_image", "imencode"},
                      l \in KeypointSets}}

InitUnit ==
    /\ pc = [t \in Threads |-> "idle"]
    /\ request = [t \in Threads |-> Body("absent", {}, <<>>, "", 0, NoImage)]
    /\ result = [t \in Threads |-> NoResult]
    /\ response = [t \in Threads |-> NoResponse]
    /\ invoked = [t \in Threads |-> FALSE]
    /\ ret = NoReturn
    /\ \/ call \in DistanceCalls
       \/ call \in BodyDistanceCalls
       \/ call \in QualityCalls
       \/ call \in ProcessCalls

Returns(value) ==
    /\ ~ret.done
    /\ ret' = [done |-> TRUE, value |-> value]
    /\ UNCHANGED <<pc, request, result, response, invoked, call>>

CallDistance ==
    /\ call.fn = "calculate_distance"
    /\ Returns(calculate_distance(call.point1, call.point2, call.image_shape))

CallBodyDistances ==
    /\ call.fn = "calculate_body_distances"
    /\ Returns(calculate_body_distances(call.landmarks, call.image_shape))

CallDetectionQuality ==
    /\ call.fn = "calculate_detection_quality"
    /\ Returns(calculate_detection_quality(call.landmarks_data))

CallProcessImage ==
    /\ call.fn = "process_image"
    /\ Returns(process_image(call.image_data))

NextUnit ==
    \/ CallDistance
    \/ CallBodyDistances
    \/ CallDetectionQuality
    \/ CallProcessImage

SpecUnit == InitUnit /\ [][NextUnit]_vars


-----------------------------------------------------------------------------
(* Claims about the server, checked under Spec *)

HasImageKey(body) == body.kind = "object" /\ "image" \in body.keys

\* the image of thread t's request reached self.pose.process and it returned
PoseProcessed(t) ==
    /\ invoked[t]
    /\ DecodeError(request[t].image) = "none"
    /\ request[t].image.fail # "pose.process"

\* C1: every POST whose JSON body is absent, empty or without the key 'image'
\* is answered 400 with {success: false, error: "No image data provided"},
\* and process_image is not invoked for it.
C1_MissingImageIs400 ==
    \A t \in Threads :
        (pc[t] = "done" /\ ~HasImageKey(request[t]))
            => (response[t] = NoImageResponse /\ ~invoked[t])

\* C2: a decodable image on which no pose is detected is answered with
\* success = true, no landmarks, no distances, and detection quality "poor".
C2_NoPoseReportsPoor ==
    \A t \in Threads :
        (pc[t] = "done" /\ PoseProcessed(t) /\ ~request[t].image.detected)
            => /\ response[t].body.success
               /\ response[t].body.landmarks = <<>>
               /\ response[t].body.distances = <<>>
               /\ "detection_quality" \in DOMAIN response[t].body.stats
               /\ response[t].body.stats.detection_quality = "poor"

\* a response that is a structured JSON payload
Structured(r) ==
    /\ r.status \in {200, 400, 500}
    /\ "success" \in DOMAIN r.body
    /\ r.body.success \in BOOLEAN
    /\ (~r.body.success => "error" \in DOMAIN r.body)

\* C6: every POST, whatever its body and whichever step fails, ends with a
\* structured JSON response that has a boolean success and, when success is
\* false, an error; until then the request always has a next step to take
\* (no exception leaves the handler).
C6_AlwaysStructuredResponse ==
    \A t \in Threads :
        /\ pc[t] = "done" => Structured(response[t])
        /\ pc[t] \notin {"idle", "done"} => ENABLED Handle(t)

\* one request failed in detect_pose itself and one inside process_image
C6_Witness ==
    \E t, u \in Threads :
        /\ pc[t] = "done" /\ response[t].status = 500
        /\ ~response[t].body.success /\ response[t].body.error = "TypeError"
        /\ pc[u] = "done" /\ response[u].status = 200
        /\ ~response[u].body.success /\ response[u].body.error = "pose.process"

\* C7: when a pose is detected and annotation or encoding fails, the response
\* still has success = true, no annotated image, and the landmarks, distances
\* and stats of the request.
C7_AnnotationFailureKeepsResponse ==
    \A t \in Threads :
        (/\ pc[t] = "done"
         /\ PoseProcessed(t)
         /\ request[t].image.detected
         /\ request[t].image.fail \in {"create_annotated_image", "imencode"})
            => /\ response[t].status = 200
               /\ response[t].body.success
               /\ response[t].body.annotated_image = None
               /\ response[t].body.landmarks
                     = ExtractLandmarks(request[t].image.landmark)
               /\ response[t].body.stats.total_distances
                     = Len(response[t].body.distances)

\* C9: at most one request at a time is inside the shared tracker's
\* pose.process call.
C9_PoseProcessSerialized ==
    Cardinality({t \in Threads : pc[t] = "pose.process"}) <= 1

-----------------------------------------------------------------------------
(* Claims about the tracker's methods, checked under SpecUnit *)

Returned(fn) == call.fn = fn /\ ret.done

\* both endpoints of pair exist in landmarks with visibility above 0.3
BothAbove(landmarks, pair) ==
    \A p \in {pair.point1, pair.point2} :
        p < Len(landmarks) /\ landmarks[p + 1].visibility > 30

\* C3: calculate_body_distances emits a measurement for a configured pair if
\* and only if both indices are in range and both visibilities are above 0.3;
\* no response holds a measurement with a missing endpoint or one of
\* visibility <= 0.3.
C3_MeasurementIffBothVisible ==
    /\ Returned("calculate_body_distances") =>
          /\ \A i \in DOMAIN key_pairs :
                (\E j \in DOMAIN ret.value :
                    /\ ret.value[j].label = key_pairs[i].label
                    /\ ret.value[j].point1 = key_pairs[i].point1
                    /\ ret.value[j].point2 = key_pairs[i].point2)
                <=> BothAbove(call.landmarks, key_pairs[i])
          /\ \A j \in DOMAIN ret.value : BothAbove(call.landmarks, ret.value[j])
    /\ (Returned("process_image") /\ ret.value.success) =>
          \A j \in DOMAIN ret.value.distances :
              BothAbove(call.image_data.landmark, ret.value.distances[j])

\* a pair is left out for an endpoint of visibility exactly 0.3 while another
\* pair is measured
C3_Witness ==
    /\ Returned("calculate_body_distances")
    /\ Len(ret.value) \in 1..7
    /\ \E i \in DOMAIN key_pairs :
          /\ key_pairs[i].point2 < Len(call.landmarks)
          /\ call.landmarks[key_pairs[i].point1 + 1].visibility > 30
          /\ call.landmarks[key_pairs[i].point2 + 1].visibility = 30

ConfigLabels ==
    <<"Shoulders", "Hands", "Hips", "Feet", "Left Upper Arm", "Left Lower Arm",
      "Right Upper Arm", "Right Lower Arm">>

LabelPosition(label) == CHOOSE i \in DOMAIN ConfigLabels : ConfigLabels[i] = label

\* C4: the labels returned by calculate_body_distances are a subsequence of
\* the configuration order with no label repeated; when every configured
\* pair is visible, exactly the 8 labels are returned in that order.
C4_LabelsInConfigurationOrder ==
    Returned("calculate_body_distances") =>
        /\ \A j \in DOMAIN ret.value :
              \E i \in DOMAIN ConfigLabels : ConfigLabels[i] = ret.value[j].label
        /\ \A j, k \in DOMAIN ret.value :
              j < k => LabelPosition(ret.value[j].label) < LabelPosition(ret.value[k].label)
        /\ (\A p \in {11, 12, 13, 14, 15, 16, 23, 24, 27, 28} :
                p < Len(call.landmarks) /\ call.landmarks[p + 1].visibility > 30)
              => [j \in DOMAIN ret.value |-> ret.value[j].label] = ConfigLabels

\* every configured pair is measured
C4_Witness ==
    /\ Returned("calculate_body_distances")
    /\ Len(ret.value) = 8

HighAmong(landmarks_data) ==
    Cardinality({i \in DOMAIN landmarks_data : landmarks_data[i].visibility > 70})

\* C5: calculate_detection_quality buckets ratio = high / visible with strict
\* cut points: > 0.8 excellent, else > 0.6 good, else > 0.4 fair, else poor;
\* an empty set is poor; visible = 10 with high = 8 is good.
C5_QualityBuckets ==
    Returned("calculate_detection_quality") =>
        LET visible == Len(call.landmarks_data)
            high == HighAmong(call.landmarks_data)
        IN  /\ ret.value =
                  IF visible = 0 THEN "poor"
                  ELSE IF 5 * high > 4 * visible THEN "excellent"
                  ELSE IF 5 * high > 3 * visible THEN "good"
                  ELSE IF 5 * high > 2 * visible THEN "fair"
                  ELSE "poor"
            /\ (visible = 10 /\ high = 8) => ret.value = "good"

\* the ratio exactly on the cut point 0.8
C5_Witness ==
    /\ Returned("calculate_detection_quality")
    /\ Len(call.landmarks_data) = 10
    /\ HighAmong(call.landmarks_data) = 8
    /\ ret.value = "good"

SquaredDistance(c1, c2) ==
    (c2[1] - c1[1]) * (c2[1] - c1[1]) + (c2[2] - c1[2]) * (c2[2] - c1[2])

\* C8: calculate_distance takes each endpoint's pixel coordinates as
\* (round(x * width), round(y * height)) and returns the Euclidean distance
\* between the two.
C8_RoundedPixels ==
    Returned("calculate_distance") =>
        LET h == call.image_shape[1]
            w == call.image_shape[2]
        IN  /\ ret.value.coord1 = <<IntRound(call.point1.x * w, CoordDen),
                                    IntRound(call.point1.y * h, CoordDen)>>
            /\ ret.value.coord2 = <<IntRound(call.point2.x * w, CoordDen),
                                    IntRound(call.point2.y * h, CoordDen)>>
            /\ ret.value.distance2 = SquaredDistance(ret.value.coord1, ret.value.coord2)

\* px is the quotient n / CoordDen with its fraction dropped
Truncates(px, n) ==
    IF n >= 0
    THEN px * CoordDen <= n /\ n < (px + 1) * CoordDen
    ELSE px * CoordDen >= n /\ n > (px - 1) * CoordDen

\* C8 as amended: the pixel coordinates are (int(x * width), int(y * height)),
\* the products truncated toward zero, and the distance is the Euclidean
\* distance between them; (0,0) and (1,1) on a width-100, height-200 image
\* give (0,0) and (100,200), squared distance 100^2 + 200^2.
C8_TruncatedPixels ==
    Returned("calculate_distance") =>
        LET h == call.image_shape[1]
            w == call.image_shape[2]
        IN  /\ Truncates(ret.value.coord1[1], call.point1.x * w)
            /\ Truncates(ret.value.coord1[2], call.point1.y * h)
            /\ Truncates(ret.value.coord2[1], call.point2.x * w)
            /\ Truncates(ret.value.coord2[2], call.point2.y * h)
            /\ ret.value.distance2 = SquaredDistance(ret.value.coord1, ret.value.coord2)
            /\ (/\ call.image_shape = <<200, 100>>
                /\ call.point1.x = 0 /\ call.point1.y = 0
                /\ call.point2.x = CoordDen /\ call.point2.y = CoordDen)
                  => /\ ret.value.coord1 = <<0, 0>>
                     /\ ret.value.coord2 = <<100, 200>>
                     /\ ret.value.distance2 = 100 * 100 + 200 * 200

\* a coordinate whose product has a fraction of a half or more
C8_Witness ==
    /\ Returned("calculate_distance")
    /\ ret.value.coord1[1]
          # IntRound(call.point1.x * call.image_shape[2], CoordDen)
    /\ call.point1.x > 0

\* C10: in a successful response of process_image each measurement's point1
\* and point2 are the index of some returned landmark; when a pose was
\* detected stats.total_landmarks and stats.total_distances are the lengths
\* of landmarks and distances; distances is non-empty only if landmarks is.
C10_ResponsePartsConsistent ==
    (Returned("process_image") /\ ret.value.success) =>
        LET landmarks == ret.value.landmarks
            distances == ret.value.distances
        IN  /\ \A j \in DOMAIN distances :
                  /\ \E k \in DOMAIN landmarks : landmarks[k].index = distances[j].point1
                  /\ \E k \in DOMAIN landmarks : landmarks[k].index = distances[j].point2
            /\ call.image_data.detected =>
                  /\ "total_landmarks" \in DOMAIN ret.value.stats
                  /\ "total_distances" \in DOMAIN ret.value.stats
                  /\ ret.value.stats.total_landmarks = Len(landmarks)
                  /\ ret.value.stats.total_distances = Len(distances)
            /\ distances # <<>> => landmarks # <<>>

\* a detected pose with some pairs measured and some landmarks filtered out
C10_Witness ==
    /\ Returned("process_image")
    /\ ret.value.success
    /\ call.image_data.detected
    /\ Len(ret.value.distances) \in 1..7
    /\ Len(ret.value.landmarks) \in 1..(Len(call.image_data.landmark) - 1)

=============================================================================
